---- MODULE Spec2Model ----
(***************************************************************************)
(* Model of the election-results downloader: the Snapshot Monitor          *)
(* (downloader/src/monitor.py) and the Retention Manager                   *)
(* (downloader/src/cleanup.py) over the shared on-disk snapshot store, and *)
(* the Entity Discoverer (downloader/src/entities_scraper.py) with the     *)
(* registry file it feeds.                                                 *)
(*                                                                         *)
(* Time is counted in seconds.  A file stem is a sequence of character     *)
(* codes: the digits 0..9 stand for themselves, Letter is any character    *)
(* that sorts after the digits and Dash any character that sorts before    *)
(* them.  A path is a sequence of components and a component is the list   *)
(* of its dash-separated segments ("fylke-03-oslo" is                      *)
(* <<"fylke", "03", "oslo">>).  A JSON object is the sequence of its       *)
(* <<key, value>> pairs in insertion order.                                *)
(***************************************************************************)
EXTENDS Integers, Sequences, FiniteSets, TLC

VARIABLES
    files,          \* the *.json files of the store: [dir, name] -> document
    links,          \* the latest pointers: entity directory -> stem of the target
    written,        \* log of the snapshot writes, oldest first
    err,            \* "none", or the exception that ended the process
    election_years, \* ElectionMonitor.election_years
    entities,       \* ElectionMonitor.entities: year -> tier -> sequence of IDs
    last_run,       \* run(): last_run, tier -> time of the last processing
    current_time,   \* run(): current_time of the wake-up in progress
    pc,             \* run(): position in the loop body
    yi,             \* run(): index of the year being handled
    ei,             \* run(): index of the next entity of the tier being handled
    calls,          \* log of the process_entity calls made directly, oldest first
    last_fetch,     \* run(): per entity, when it was last fetched and with what outcome
    pass,           \* what the wake-up in progress found due and processed
    failures,       \* run(): fetches that have failed so far
    now,            \* Retention Manager: the clock reading of the sweep
    month,          \* Retention Manager: the month of that reading
    deleted,        \* Retention Manager: the files the last sweep unlinked
    visited,        \* Retention Manager: the directories the last sweep cleaned, with their tier
    upstream,       \* the election API: the payload of every endpoint
    scraped,        \* EntitiesScraper.entities of the scraper object in use
    result,         \* what the last scrape_entities call returned
    config,         \* config/entities.json, the persisted registry
    down,           \* the URLs whose fetch gave no data in the last discovery pass
    op,             \* the last Discoverer operation: "none", "load" or "scrape"
    passes,         \* discovery passes made so far
    attempt,        \* _fetch_data: attempts made so far
    slept,          \* _fetch_data: the waits made so far, oldest first
    response,       \* _fetch_data: whether the call has returned, and what
    args,           \* the arguments a function under test was given
    returned,       \* what it returned
    save_pc,        \* _save_snapshot in steps: the step it is at
    sweep_pc,       \* cleanup_entity in steps: the step it is at
    listing         \* cleanup_entity in steps: the snapshots it has still to look at

vars == <<files, links, written, err, election_years, entities, last_run,
          current_time, pc, yi, ei, calls, last_fetch, pass, failures, now, month,
          deleted, visited, upstream, scraped, result, config, down, op, passes,
          attempt, slept, response, args, returned, save_pc, sweep_pc, listing>>

storeVars     == <<files, links, written, err>>
callVars      == <<calls>>
monitorVars   == <<election_years, entities>>
loopVars      == <<last_run, current_time, pc, yi, ei, last_fetch, pass, failures>>
retentionVars == <<now, month, deleted, visited>>
discoverVars  == <<upstream, scraped, result, config, down, op, passes>>
fetchVars     == <<attempt, slept, response>>
callerVars    == <<args, returned>>
raceVars      == <<save_pc, sweep_pc, listing>>

----------------------------------------------------------------------------
(* Bounds of the model *)

MaxCalls == 3        \* direct process_entity calls followed in one behaviour
MaxMinute == 2       \* wall-clock minutes the Monitor's clock may show
StampWidth == 7      \* digits of a rendered timestamp

(* Program constants *)

SecondsPerMinute == 60
SecondsPerDay == 86400

----------------------------------------------------------------------------
(* Names and timestamps *)

Letter == 9 + 1
Dash == 0 - 1

IsDigit(c) == c \in 0..9

RECURSIVE Pow10(_)
Pow10(k) == IF k = 0 THEN 1 ELSE 10 * Pow10(k - 1)

\* The fixed-width rendering of a minute count.
Digits(n, w) == [i \in 1..w |-> (n \div Pow10(w - i)) % 10]

RECURSIVE Value(_)
Value(s) == IF s = <<>> THEN 0
            ELSE 10 * Value(SubSeq(s, 1, Len(s) - 1)) + s[Len(s)]

\* datetime.now().strftime("%Y-%m-%d__%H%M"): the clock reading cut to the minute.
StrfTime(t) == Digits(t \div SecondsPerMinute, StampWidth)

ParseError == 0 - 1

\* datetime.strptime(stem, "%Y-%m-%d__%H%M"): the instant, or ParseError (ValueError).
StrpTime(stem) ==
    IF Len(stem) = StampWidth /\ \A i \in 1..Len(stem) : IsDigit(stem[i])
    THEN Value(stem) * SecondsPerMinute
    ELSE ParseError

\* Python's string order on stems.
RECURSIVE NameLess(_, _)
NameLess(a, b) ==
    IF a = <<>> THEN b # <<>>
    ELSE IF b = <<>> THEN FALSE
    ELSE IF a[1] # b[1] THEN a[1] < b[1]
    ELSE NameLess(Tail(a), Tail(b))

----------------------------------------------------------------------------
(* JSON documents *)

\* A JSON value carries its type: a number, an object (its pairs in insertion
\* order) or an array.
Num(n) == [t |-> "num", v |-> n]
Obj(pairs) == [t |-> "obj", v |-> pairs]
Arr(items) == [t |-> "arr", v |-> items]

NoData == << <<"None", Num(0)>> >>
EmptyDoc == <<>>

DocA  == << <<"a", Num(1)>>, <<"b", Num(1)>> >>
DocA2 == << <<"b", Num(1)>>, <<"a", Num(1)>> >>   \* DocA with its keys in another order
DocB  == << <<"a", Num(2)>>, <<"b", Num(1)>> >>

Payloads == {DocA, DocA2, DocB}

\* A serialisation that sorts the keys of the outermost object only.
DumpsTopLevel(doc) == {doc[i] : i \in 1..Len(doc)}

\* The serialisation of a value with the keys of every object sorted: an
\* object is the set of its pairs, an array keeps its order.
RECURSIVE Canonical(_)
Canonical(value) ==
    CASE value.t = "obj" ->
           [t |-> "obj",
            v |-> {<<value.v[i][1], Canonical(value.v[i][2])>> : i \in 1..Len(value.v)}]
      [] value.t = "arr" ->
           [t |-> "arr", v |-> [i \in 1..Len(value.v) |-> Canonical(value.v[i])]]
      [] OTHER -> value

\* json.dumps(data, sort_keys=True)
DumpsSorted(doc) == Canonical(Obj(doc)).v

clean_data(data) == data

\* A comparison of the serialisations without sort_keys=True.
HasChangesUnsorted(old_data, new_data) == clean_data(old_data) # clean_data(new_data)

_has_meaningful_changes(old_data, new_data) ==
    DumpsSorted(clean_data(old_data)) # DumpsSorted(clean_data(new_data))

----------------------------------------------------------------------------
(* The store *)

Tiers == <<"nasjonalt", "fylke", "kommune", "krets">>
TierSet == {Tiers[i] : i \in 1..Len(Tiers)}

File(dir, name) == [dir |-> dir, name |-> name]

FileExists(dir, name) == File(dir, name) \in DOMAIN files

\* The stems of the *.json files of a directory.
NamesIn(dir) == {f.name : f \in {g \in DOMAIN files : g.dir = dir}}

IsSymlink(dir) == dir \in DOMAIN links

\* Path.exists() of the pointer follows it: its target has to be there.
LinkExists(dir) == IsSymlink(dir) /\ FileExists(dir, links[dir])

Put(f, k, v) == [x \in DOMAIN f \cup {k} |-> IF x = k THEN v ELSE f[x]]
Drop(f, k) == [x \in DOMAIN f \ {k} |-> f[x]]

----------------------------------------------------------------------------
(* Snapshot Monitor: process_entity *)

Years == <<"2021", "2025">>

\* The registry the Monitor polls from, the same for every year.
Registry ==
    [fylke   |-> << <<"fylke", "03", "oslo">> >>,
     kommune |-> << <<"kommune", "03", "0301", "oslo">> >>,
     krets   |-> << <<"krets", "03", "0301", "0001", "gamle", "oslo">> >>]

Norge == <<"norge">>

\* year_config.get(tier, []), and the one national entity.
IdsOf(year, tier) ==
    IF tier = "nasjonalt" THEN <<Norge>>
    ELSE IF year \in DOMAIN entities THEN entities[year][tier]
    ELSE <<>>

\* '-'.join(entity_id.split('-')[:-1]).split('-')
Components(entity_id) == SubSeq(entity_id, 1, Len(entity_id) - 1)

\* How many components the URL template of a tier reads (components[1..]).
CodesOf(entity_type) ==
    CASE entity_type = "nasjonalt" -> 0
      [] entity_type = "fylke"     -> 1
      [] entity_type = "kommune"   -> 2
      [] entity_type = "krets"     -> 3

IndexError(entity_type, entity_id) ==
    /\ entity_type # "nasjonalt"
    /\ Len(Components(entity_id)) < CodesOf(entity_type) + 1

\* self.endpoints[entity_type].format(...): the segments of the URL.
Url(entity_type, entity_id, year) ==
    <<year, "st">> \o SubSeq(Components(entity_id), 2, CodesOf(entity_type) + 1)

\* entity_path of process_entity.
EntityPath(entity_type, entity_id, year) ==
    IF entity_type = "nasjonalt"
    THEN << <<year>>, <<entity_type>>, Norge >>
    ELSE << <<year>>, <<entity_type>>, entity_id >>

\* "if not data": None and the empty object are both falsy.
Falsy(data) == data = NoData \/ data = EmptyDoc

\* The store after _save_snapshot(data, entity_path, timestamp).
_save_snapshot(data, dir, timestamp) ==
    LET newFiles == Put(files, File(dir, timestamp), data)
        exists   == IsSymlink(dir) /\ File(dir, links[dir]) \in DOMAIN newFiles
        unlinked == IF exists THEN Drop(links, dir) ELSE links
    IN  [files   |-> newFiles,
         links   |-> IF dir \in DOMAIN unlinked THEN unlinked
                     ELSE Put(unlinked, dir, timestamp),
         err     |-> IF dir \in DOMAIN unlinked THEN "FileExistsError" ELSE "none",
         written |-> Append(written, [dir |-> dir, name |-> timestamp, doc |-> data])]

Untouched == [files |-> files, links |-> links, err |-> err, written |-> written]

\* Whether process_entity, having fetched `data`, goes on to _save_snapshot.
Persists(dir, data) ==
    IF LinkExists(dir)
    THEN _has_meaningful_changes(files[File(dir, links[dir])], data)
    ELSE TRUE

\* The store after process_entity whose fetch returned `data` at clock reading t.
process_entity(entity_type, entity_id, year, data, t) ==
    LET dir == EntityPath(entity_type, entity_id, year)
    IN  IF IndexError(entity_type, entity_id)
        THEN [Untouched EXCEPT !.err = "IndexError"]
        ELSE IF Falsy(data) THEN Untouched
        ELSE IF Persists(dir, data) THEN _save_snapshot(data, dir, StrfTime(t))
        ELSE Untouched

ProcessEntity(entity_type, entity_id, year, data, t) ==
    /\ err = "none"
    /\ LET after == process_entity(entity_type, entity_id, year, data, t)
       IN  /\ files' = after.files
           /\ links' = after.links
           /\ err' = after.err
           /\ written' = after.written

----------------------------------------------------------------------------
(* Spec: process_entity called for one entity at arbitrary wall-clock          *)
(* readings (the clock is the local time of day: it may repeat or step back). *)

FetchResults == Payloads \cup {NoData, EmptyDoc}

ClockReadings ==
    {m * SecondsPerMinute + s : m \in 1..MaxMinute, s \in {0, SecondsPerMinute \div 2}}

NoFiles == [f \in {} |-> EmptyDoc]
NoLinks == [d \in {} |-> <<>>]

IdleLoop ==
    /\ last_run = [i \in TierSet |-> 0]
    /\ current_time = 0
    /\ pc = "sleep"
    /\ yi = 1
    /\ ei = 1
    /\ last_fetch = NoLinks
    /\ pass = [due |-> {}, done |-> {}]
    /\ failures = 0

IdleRetention ==
    /\ now = 0
    /\ month = 1
    /\ deleted = {}
    /\ visited = {}

IdleDiscover ==
    /\ upstream = NoLinks
    /\ scraped = NoLinks
    /\ result = NoLinks
    /\ config = NoLinks
    /\ down = {}
    /\ op = "none"
    /\ passes = 0

IdleFetch ==
    /\ attempt = 0
    /\ slept = <<>>
    /\ response = [done |-> FALSE, data |-> EmptyDoc]

IdleCaller ==
    /\ args = <<>>
    /\ returned = <<>>

IdleRace ==
    /\ save_pc = "idle"
    /\ sweep_pc = "idle"
    /\ listing = <<>>

\* Everything outside the store and the Monitor's loop is at rest.
IdleOthers == IdleRetention /\ IdleDiscover /\ IdleFetch /\ IdleCaller /\ IdleRace

Init ==
    /\ files = NoFiles
    /\ links = NoLinks
    /\ written = <<>>
    /\ err = "none"
    /\ election_years = <<Years[1]>>
    /\ entities = [y \in {Years[1]} |-> Registry]
    /\ calls = <<>>
    /\ IdleLoop
    /\ IdleOthers

Call ==
    /\ Len(calls) < MaxCalls
    /\ \E entity_type \in TierSet, data \in FetchResults, t \in ClockReadings :
         \E i \in 1..Len(IdsOf(Years[1], entity_type)) :
           LET entity_id == IdsOf(Years[1], entity_type)[i]
               dir == EntityPath(entity_type, entity_id, Years[1])
           IN  /\ calls # <<>> => calls[1].dir = dir
               /\ ProcessEntity(entity_type, entity_id, Years[1], data, t)
               /\ calls' = Append(calls, [dir |-> dir, data |-> data,
                                           stamp |-> StrfTime(t)])
    /\ UNCHANGED <<monitorVars, loopVars, retentionVars, discoverVars, fetchVars, raceVars, callerVars>>

Next == Call

Spec == Init /\ [][Next]_vars

----------------------------------------------------------------------------
(* Claims about process_entity, checked under Spec *)

Keys(doc) == {doc[i][1] : i \in 1..Len(doc)}
Get(doc, k) == (CHOOSE p \in {doc[i] : i \in 1..Len(doc)} : p[1] = k)[2]

\* Two JSON objects with the same keys and the same value under each key.
SameObject(a, b) == Keys(a) = Keys(b) /\ \A k \in Keys(a) : Get(a, k) = Get(b, k)

LastCall == calls[Len(calls)]

\* The snapshot writes made to one directory, oldest first.
WritesTo(dir) == SelectSeq(written, LAMBDA w : w.dir = dir)

EntityDirs == {w.dir : w \in {written[i] : i \in 1..Len(written)}} \cup DOMAIN links

\* C1: a process_entity call for an entity whose latest pointer exists and whose
\* fetched payload is structurally equal to the payload the pointer references
\* changes neither the files of the store nor any latest pointer.
C1_EqualPayloadWritesNothing ==
    [][calls' # calls =>
         LET c == calls'[Len(calls')]
         IN  (LinkExists(c.dir) /\ SameObject(files[File(c.dir, links[c.dir])], c.data))
                => files' = files /\ links' = links /\ written' = written]_vars

\* C1 witness: DocA was saved, then DocA with its keys reordered was fetched and
\* the store still holds the one snapshot.
C1_Witness ==
    /\ Len(calls) = 2
    /\ calls[1].data = DocA
    /\ calls[2].data = DocA2
    /\ Len(written) = 1
    /\ LinkExists(calls[2].dir)
    /\ files[File(calls[2].dir, links[calls[2].dir])] = DocA

\* C2: after N process_entity calls that persisted, exactly N distinct snapshot
\* files exist for the entity and every file holds what was first written to it.
C2_SnapshotsAppendOnly ==
    \A dir \in EntityDirs :
        /\ Cardinality(NamesIn(dir)) = Len(WritesTo(dir))
        /\ \A i \in 1..Len(WritesTo(dir)) :
             /\ FileExists(dir, WritesTo(dir)[i].name)
             /\ files[File(dir, WritesTo(dir)[i].name)] = WritesTo(dir)[i].doc

\* C3: an entity has a latest pointer exactly when it has a snapshot, and the
\* pointer references the most recently written snapshot, which is also the
\* snapshot with the greatest timestamp ever written for the entity.
C3_LatestIsNewest ==
    \A dir \in EntityDirs :
        /\ IsSymlink(dir) <=> NamesIn(dir) # {}
        /\ IsSymlink(dir) =>
             /\ WritesTo(dir) # <<>>
             /\ links[dir] = WritesTo(dir)[Len(WritesTo(dir))].name
             /\ \A i \in 1..Len(WritesTo(dir)) :
                  StrpTime(WritesTo(dir)[i].name) <= StrpTime(links[dir])

\* The part of C3 that does not depend on the clock.
C3_LatestIsLastWritten ==
    \A dir \in EntityDirs :
        /\ IsSymlink(dir) <=> NamesIn(dir) # {}
        /\ IsSymlink(dir) =>
             /\ WritesTo(dir) # <<>>
             /\ links[dir] = WritesTo(dir)[Len(WritesTo(dir))].name

----------------------------------------------------------------------------
(* Snapshot Monitor: run() *)

schedules == [nasjonalt |-> 300, fylke |-> 600, kommune |-> 900, krets |-> 3600]

CheckInterval == 60

StartTime == 3600    \* time.time() when run() starts
MaxWakeups == 61     \* wake-ups of the loop followed after the first
MaxFailures == 2     \* failed fetches injected in one behaviour of the loop
Overrun == 30        \* seconds a pass of the loop may take

\* A loop that compares against the check interval instead of the tier's.
IsDueEveryWake(tier) == current_time - last_run[tier] >= CheckInterval

\* current_time - last_run.get(tier, 0) >= self.schedules[tier]
IsDue(tier) == current_time - last_run[tier] >= schedules[tier]

Year == election_years[yi]

IndexOfTier(tier) == CHOOSE i \in 1..Len(Tiers) : Tiers[i] = tier

\* A loop whose municipality block stands before its region block.
AfterTierSwapped(tier) ==
    CASE tier = "nasjonalt" -> [pc |-> "kommune", yi |-> yi]
      [] tier = "kommune"   -> [pc |-> "fylke", yi |-> yi]
      [] tier = "fylke"     -> [pc |-> "krets", yi |-> yi]
      [] OTHER -> IF yi < Len(election_years)
                  THEN [pc |-> "nasjonalt", yi |-> yi + 1]
                  ELSE [pc |-> "sleep", yi |-> 1]

\* The loop position after the block of one tier.
AfterTier(tier) ==
    IF IndexOfTier(tier) < Len(Tiers)
    THEN [pc |-> Tiers[IndexOfTier(tier) + 1], yi |-> yi]
    ELSE IF yi < Len(election_years)
    THEN [pc |-> Tiers[1], yi |-> yi + 1]
    ELSE [pc |-> "sleep", yi |-> 1]

\* The tiers whose interval has elapsed at a wake-up at time t.
DueAt(t) == {tier \in TierSet : t - last_run[tier] >= schedules[tier]}

\* A registry with two entities in the region tier.
TwoRegions == [Registry EXCEPT !.fylke = Append(@, <<"fylke", "11", "rogaland">>)]

\* The fetch results the loop is run against.
RunResults == {NoData, DocA}

\* "if current_time - last_run.get(tier, 0) >= ..." is false: the block is skipped.
TierNotDue ==
    /\ pc \in TierSet /\ ei = 0
    /\ err = "none"
    /\ ~IsDue(pc)
    /\ pc' = AfterTier(pc).pc
    /\ yi' = AfterTier(pc).yi
    /\ UNCHANGED <<storeVars, callVars, monitorVars, retentionVars, discoverVars, fetchVars, raceVars, callerVars,
                   last_run, current_time, ei, last_fetch, pass, failures>>

\* ... is true: the for loop over the tier's entities starts.
TierDue ==
    /\ pc \in TierSet /\ ei = 0
    /\ err = "none"
    /\ IsDue(pc)
    /\ ei' = 1
    /\ UNCHANGED <<storeVars, callVars, monitorVars, retentionVars, discoverVars, fetchVars, raceVars, callerVars,
                   last_run, current_time, pc, yi, last_fetch, pass, failures>>

\* One iteration of the for loop: self.process_entity(tier, entity_id, year).
ProcessNext ==
    /\ pc \in TierSet /\ ei \in 1..Len(IdsOf(Year, pc))
    /\ \E data \in RunResults :
         LET entity_id == IdsOf(Year, pc)[ei]
             dir == EntityPath(pc, entity_id, Year)
         IN  /\ Falsy(data) => failures < MaxFailures
             /\ failures' = IF Falsy(data) THEN failures + 1 ELSE failures
             /\ ProcessEntity(pc, entity_id, Year, data, current_time)
             /\ last_fetch' =
                  Put(last_fetch, dir,
                      [time |-> current_time,
                       ok |-> ~Falsy(data),
                       n |-> IF dir \in DOMAIN last_fetch
                             THEN last_fetch[dir].n + 1 ELSE 1])
             /\ pass' = [pass EXCEPT !.done = @ \cup {dir}]
    /\ ei' = ei + 1
    /\ UNCHANGED <<callVars, monitorVars, retentionVars, discoverVars, fetchVars, raceVars, callerVars, last_run, current_time, pc, yi>>

\* The for loop is over: last_run[tier] = current_time.
TierDone ==
    /\ pc \in TierSet /\ ei = Len(IdsOf(Year, pc)) + 1
    /\ err = "none"
    /\ last_run' = [last_run EXCEPT ![pc] = current_time]
    /\ pc' = AfterTier(pc).pc
    /\ yi' = AfterTier(pc).yi
    /\ ei' = 0
    /\ UNCHANGED <<storeVars, callVars, monitorVars, retentionVars, discoverVars, fetchVars, raceVars, callerVars,
                   current_time, last_fetch, pass, failures>>

\* The time the fetches and writes of one pass may take, once in a behaviour
\* (afterwards the wake-ups are no more on the whole minute after StartTime).
Overruns ==
    IF (current_time - StartTime) % CheckInterval = 0 THEN {0, Overrun} ELSE {0}

\* time.sleep(60), then current_time = time.time() of the next iteration.
Wake ==
    /\ pc = "sleep"
    /\ err = "none"
    /\ current_time + CheckInterval <= StartTime + MaxWakeups * CheckInterval
    /\ \E late \in Overruns : current_time' = current_time + CheckInterval + late
    /\ pc' = Tiers[1]
    /\ yi' = 1
    /\ ei' = 0
    /\ pass' = [due |-> DueAt(current_time'), done |-> {}]
    /\ UNCHANGED <<storeVars, callVars, monitorVars, retentionVars, discoverVars, fetchVars, raceVars, callerVars, last_run, last_fetch,
                   failures>>

InitRun ==
    /\ files = NoFiles
    /\ links = NoLinks
    /\ written = <<>>
    /\ err = "none"
    /\ election_years \in {<<Years[1]>>, Years}
    /\ \E registry \in {Registry, TwoRegions} :
         entities = [y \in {election_years[i] : i \in 1..Len(election_years)} |-> registry]
    /\ calls = <<>>
    /\ last_run = [tier \in TierSet |-> 0]
    /\ current_time = StartTime
    /\ pc = Tiers[1]
    /\ yi = 1
    /\ ei = 0
    /\ last_fetch = NoLinks
    /\ pass = [due |-> TierSet, done |-> {}]
    /\ failures = 0
    /\ IdleOthers

NextRun == TierNotDue \/ TierDue \/ ProcessNext \/ TierDone \/ Wake

SpecRun == InitRun /\ [][NextRun]_vars

----------------------------------------------------------------------------
(* Claims about run(), checked under SpecRun *)

\* The step fetched the entity stored under dir.
Fetched(dir) ==
    /\ dir \in DOMAIN last_fetch'
    /\ dir \in DOMAIN last_fetch => last_fetch'[dir].n # last_fetch[dir].n

TierOfDir(dir) == dir[2][1]

\* C4: a process_entity whose fetch failed leaves the store and the registry as
\* they were, and the entity is next fetched only when its tier's interval has
\* elapsed again.
C4_FailedFetchSkipsEntity ==
    [][\A dir \in DOMAIN last_fetch' :
         Fetched(dir) =>
           /\ ~last_fetch'[dir].ok =>
                /\ files' = files /\ links' = links /\ written' = written
                /\ err' = err /\ entities' = entities
           /\ (dir \in DOMAIN last_fetch /\ ~last_fetch[dir].ok) =>
                last_fetch'[dir].time - last_fetch[dir].time
                    >= schedules[TierOfDir(dir)]]_vars

\* C4 witness: the first fetch of an entity failed (its first snapshot dates
\* from its second fetch), and that second fetch came a full interval later.
C4_Witness ==
    \E dir \in DOMAIN last_fetch :
        /\ last_fetch[dir].n = 2
        /\ last_fetch[dir].ok
        /\ failures >= 1
        /\ Len(WritesTo(dir)) = 1
        /\ WritesTo(dir)[1].name = StrfTime(last_fetch[dir].time)
        /\ last_fetch[dir].time = StartTime + schedules[TierOfDir(dir)]

\* The entity directories of the given years and tiers.
DirsOf(years, tiers) ==
    UNION {{EntityPath(p[2], IdsOf(p[1], p[2])[i], p[1]) :
               i \in 1..Len(IdsOf(p[1], p[2]))} : p \in years \X tiers}

ConfiguredYears == {election_years[i] : i \in 1..Len(election_years)}

\* C5: when a wake-up is over, exactly the entities of the tiers that were due
\* at it have been processed, for every configured election year.
C5_DueTiersProcessedForEveryYear ==
    pc = "sleep" => pass.done = DirsOf(ConfiguredYears, pass.due)

\* What run() does instead: the due tiers are processed for the first
\* configured year only.
C5_FirstYearOnly ==
    pc = "sleep" => pass.done = DirsOf({election_years[1]}, pass.due)

\* The order of the tiers: national, region, municipality, district.
Rank(tier) ==
    CASE tier = "nasjonalt" -> 1
      [] tier = "fylke"     -> 2
      [] tier = "kommune"   -> 3
      [] tier = "krets"     -> 4

\* C21: within one wake-up the due tiers are processed in the order national,
\* region, municipality, district: when an entity is processed, no entity of a
\* later tier has been processed in this wake-up and every entity of every due
\* earlier tier has, also when an earlier pass ran long.
C21_TiersInFixedOrder ==
    [][\A d \in pass'.done \ pass.done :
         /\ \A e \in pass.done : Rank(TierOfDir(e)) <= Rank(TierOfDir(d))
         /\ \A tier \in pass.due :
               Rank(tier) < Rank(TierOfDir(d)) => DirsOf({Year}, {tier}) \subseteq pass.done]_vars

\* A wake-up after a pass that ran long has processed the national entity and
\* both regions, and nothing else.
C21_Witness ==
    /\ pc = "sleep"
    /\ (current_time - StartTime) % CheckInterval # 0
    /\ entities[Years[1]] = TwoRegions
    /\ pass.due = {"nasjonalt", "fylke"}
    /\ pass.done = DirsOf({Years[1]}, {"nasjonalt", "fylke"})

----------------------------------------------------------------------------
(* Retention Manager *)

KeepDays(n) == [kind |-> "days", days |-> n]
KeepAll     == [kind |-> "all", days |-> 0]
KeepLatest  == [kind |-> "latest", days |-> 0]

retention_periods ==
    [election_active |->
        [nasjonalt |-> KeepDays(365), fylke |-> KeepDays(180),
         kommune |-> KeepDays(90), krets |-> KeepDays(30)],
     election_inactive |->
        [nasjonalt |-> KeepAll, fylke |-> KeepLatest,
         kommune |-> KeepLatest, krets |-> KeepLatest]]

\* timestamp.month in [9, 10]
is_election_active(m) == m \in {9, 10}

\* A stem equal to the name of the directory the file lies in.
OwnName == <<Letter, Letter>>

RECURSIVE SortedStems(_)
SortedStems(S) ==
    IF S = {} THEN <<>>
    ELSE LET least == CHOOSE x \in S : \A y \in S \ {x} : NameLess(x, y)
         IN  <<least>> \o SortedStems(S \ {least})

\* get_snapshots: the *.json files of the directory but the one named like it,
\* sorted by name.
get_snapshots(dir) == SortedStems(NamesIn(dir) \ {OwnName})

\* An exclusive cutoff.
ShouldRetainExclusive(snapshot, entity_type, is_active, clock) ==
    LET timestamp == StrpTime(snapshot)
        policy == retention_periods[IF is_active THEN "election_active"
                                    ELSE "election_inactive"]
        retention == policy[entity_type]
    IN  IF timestamp = ParseError THEN TRUE
        ELSE IF retention.kind = "all" THEN TRUE
        ELSE IF retention.kind = "latest" THEN TRUE
        ELSE timestamp > clock - retention.days * SecondsPerDay

\* A sweep that treats a file it cannot date like one past the cutoff.
ShouldRetainDatedOnly(snapshot, entity_type, is_active, clock) ==
    LET timestamp == StrpTime(snapshot)
        policy == retention_periods[IF is_active THEN "election_active"
                                    ELSE "election_inactive"]
        retention == policy[entity_type]
    IN  IF retention.kind = "all" THEN TRUE
        ELSE IF retention.kind = "latest" THEN TRUE
        ELSE timestamp >= clock - retention.days * SecondsPerDay

\* should_retain_snapshot, with datetime.now() reading `clock`.
should_retain_snapshot(snapshot, entity_type, is_active, clock) ==
    LET timestamp == StrpTime(snapshot)
        policy == retention_periods[IF is_active THEN "election_active"
                                    ELSE "election_inactive"]
        retention == policy[entity_type]
    IN  IF timestamp = ParseError THEN TRUE
        ELSE IF retention.kind = "all" THEN TRUE
        ELSE IF retention.kind = "latest" THEN TRUE
        ELSE timestamp >= clock - retention.days * SecondsPerDay

\* cleanup_entity: the stems it unlinks.  The clock readings of one call are
\* taken at one instant.
cleanup_entity(dir, entity_type, clock, m) ==
    LET snapshots == get_snapshots(dir)
        is_active == is_election_active(m)
    IN  IF snapshots = <<>> THEN {}
        ELSE {snapshots[i] : i \in
                {j \in 1..(Len(snapshots) - 1) :
                    ~should_retain_snapshot(snapshots[j], entity_type, is_active, clock)}}

\* year_dir.name.isdigit()
IsDigitName(component) == component \in {<<Years[i]>> : i \in 1..Len(Years)}

\* The pattern 'prefix-*'.
Glob(component, prefix) == Len(component) >= 2 /\ component[1] = prefix

\* The directories that hold files.
Directories == {f.dir : f \in DOMAIN files}

\* cleanup_year: the directories it hands to cleanup_entity, each with its tier.
cleanup_year(year) ==
    {[dir |-> << year, <<"nasjonalt">>, Norge >>, tier |-> "nasjonalt"]}
    \cup {[dir |-> d, tier |-> "fylke"] : d \in
            {x \in Directories : /\ Len(x) = 3 /\ x[1] = year /\ x[2] = <<"fylke">>
                                 /\ Glob(x[3], "fylke")}}
    \cup {[dir |-> d, tier |-> "kommune"] : d \in
            {x \in Directories : /\ Len(x) = 3 /\ x[1] = year /\ x[2] = <<"kommune">>
                                 /\ Glob(x[3], "kommune")}}
    \cup {[dir |-> d, tier |-> "krets"] : d \in
            {x \in Directories : /\ Len(x) = 4 /\ x[1] = year /\ x[2] = <<"kommune">>
                                 /\ x[3] = <<"krets">> /\ Glob(x[4], "krets")}}

\* run: the directories of all the years it sweeps.
SweepTargets ==
    UNION {cleanup_year(y) : y \in {d[1] : d \in {x \in Directories : IsDigitName(x[1])}}}

\* DataRetentionManager.run() at clock reading `clock` in month m.
CleanupRun(clock, m) ==
    LET unlinked == UNION {{File(v.dir, n) : n \in cleanup_entity(v.dir, v.tier, clock, m)} :
                              v \in SweepTargets}
    IN  /\ files' = [f \in DOMAIN files \ unlinked |-> files[f]]
        /\ deleted' = unlinked
        /\ visited' = SweepTargets
        /\ now' = clock
        /\ month' = m
        /\ UNCHANGED <<links, written, err, callVars, monitorVars, loopVars, discoverVars, fetchVars, raceVars,
                       callerVars>>

----------------------------------------------------------------------------
(* SpecRetention: one entity directory with drawn content, swept by run() *)

MaxFilesInDir == 5   \* files drawn into the directory
ClockDays == 400     \* days between the epoch of the model and the sweeps

SweepBase == ClockDays * SecondsPerDay

\* The sweep runs on the minute or half a minute past it.
SweepClocks == {SweepBase, SweepBase + SecondsPerMinute \div 2}

Months == 1..12

\* A month outside and a month inside the election period.
SweepMonths == {8, 9}

\* Where cleanup_year looks for the directory of an entity.
SweptPath(entity_type, entity_id, year) ==
    CASE entity_type = "nasjonalt" -> << <<year>>, <<"nasjonalt">>, Norge >>
      [] entity_type = "fylke"     -> << <<year>>, <<"fylke">>, entity_id >>
      [] entity_type = "kommune"   -> << <<year>>, <<"kommune">>, entity_id >>
      [] entity_type = "krets"     -> << <<year>>, <<"kommune">>, <<"krets">>, entity_id >>

PeriodOf(tier) == retention_periods.election_active[tier].days * SecondsPerDay

\* Stems drawn for a directory of a tier: snapshots written a minute ago and
\* around the tier's cutoff, and names that are no timestamps.
DrawnStems(tier) ==
    {StrfTime(SweepBase - age) :
        age \in {SecondsPerMinute,
                 PeriodOf(tier) - SecondsPerMinute,
                 PeriodOf(tier),
                 PeriodOf(tier) + SecondsPerMinute,
                 PeriodOf(tier) + 2 * SecondsPerMinute}}
    \cup {<<Letter>>, <<Dash>>, OwnName,
          StrfTime(SweepBase - PeriodOf(tier) - SecondsPerMinute) \o <<Letter>>}

FirstId(tier) == IF tier = "nasjonalt" THEN Norge ELSE Registry[tier][1]

InitRetention ==
    /\ \E tier \in TierSet :
         \E names \in SUBSET DrawnStems(tier) :
           /\ Cardinality(names) <= MaxFilesInDir
           /\ files = [f \in {File(SweptPath(tier, FirstId(tier), Years[1]), n) :
                                 n \in names} |-> DocA]
    /\ links = NoLinks
    /\ written = <<>>
    /\ err = "none"
    /\ election_years = <<Years[1]>>
    /\ entities = [y \in {Years[1]} |-> Registry]
    /\ calls = <<>>
    /\ IdleLoop
    /\ IdleOthers

\* The Retention Manager is a one-shot job: one sweep per behaviour.
RetentionRun ==
    /\ visited = {}
    /\ \E clock \in SweepClocks, m \in Months : CleanupRun(clock, m)

NextRetention == RetentionRun

SpecRetention == InitRetention /\ [][NextRetention]_vars

----------------------------------------------------------------------------
(* Claims about the Retention Manager, checked under SpecRetention *)

WellFormed(stem) == Len(stem) = StampWidth /\ \A i \in 1..Len(stem) : stem[i] \in 0..9

\* The stems the directory held when the last sweep started.
PreSweep(dir) == NamesIn(dir) \cup {f.name : f \in {g \in deleted : g.dir = dir}}

\* The snapshots among them: the files named by a timestamp.
Dated(dir) == {n \in PreSweep(dir) : WellFormed(n)}

\* The newest snapshot, as a set: empty when the directory held none.
Newest(dir) == {n \in Dated(dir) : \A o \in Dated(dir) : StrpTime(o) <= StrpTime(n)}

ElectionMonths == {9, 10}

\* C6: a sweep does not delete the snapshot with the greatest embedded
\* timestamp of a directory, whatever else the directory holds.
C6_NewestNeverDeleted ==
    \A v \in visited :
        \A n \in Newest(v.dir) : File(v.dir, n) \notin deleted

\* C7: outside the election months, a sweep of a region, municipality or
\* district directory that held k >= 1 well-formed snapshots leaves exactly the
\* newest.
C7_KeepLatestLeavesOne ==
    \A v \in visited :
        (/\ month \notin ElectionMonths
         /\ v.tier \in {"fylke", "kommune", "krets"}
         /\ PreSweep(v.dir) # {}
         /\ PreSweep(v.dir) = Dated(v.dir))
        => NamesIn(v.dir) = Newest(v.dir)

ClaimedDays(tier) ==
    CASE tier = "nasjonalt" -> 365
      [] tier = "fylke"     -> 180
      [] tier = "kommune"   -> 90
      [] tier = "krets"     -> 30

\* C8: in an election month a snapshot other than the newest, with a parseable
\* timestamp t, survives the sweep exactly when t >= now - N days, N the days
\* of its tier.
C8_KeepWithinDays ==
    \A v \in visited :
        month \in ElectionMonths =>
          \A n \in Dated(v.dir) \ Newest(v.dir) :
             File(v.dir, n) \notin deleted
               <=> StrpTime(n) >= now - ClaimedDays(v.tier) * SecondsPerDay

\* C8 witness: a sweep kept a snapshot dated exactly now - N days, not the
\* newest, and deleted the one a minute older.
C8_Witness ==
    \E v \in visited :
        /\ month \in ElectionMonths
        /\ \E n \in Dated(v.dir) \ Newest(v.dir) :
             /\ StrpTime(n) = now - ClaimedDays(v.tier) * SecondsPerDay
             /\ File(v.dir, n) \in DOMAIN files
        /\ \E o \in Dated(v.dir) :
             /\ StrpTime(o) = now - ClaimedDays(v.tier) * SecondsPerDay - SecondsPerMinute
             /\ File(v.dir, o) \in deleted

\* C9: a sweep deletes no file whose name is not a timestamp.
C9_UnparseableNeverDeleted ==
    \A f \in deleted : WellFormed(f.name)

\* C9 witness: an election-month sweep deleted a snapshot past the cutoff and
\* kept a file with an unparseable name that was not the last of the listing.
C9_Witness ==
    \E v \in visited :
        /\ month \in ElectionMonths
        /\ \E f \in deleted : f.dir = v.dir
        /\ \E n \in NamesIn(v.dir) :
             /\ ~WellFormed(n)
             /\ n # OwnName
             /\ \E o \in NamesIn(v.dir) \ {OwnName} : NameLess(n, o)

----------------------------------------------------------------------------
(* SpecSweep: the Monitor stores snapshots for the entities of every tier and *)
(* year, and the Retention Manager sweeps the store, one after the other.     *)

InitSweep ==
    /\ files = NoFiles
    /\ links = NoLinks
    /\ written = <<>>
    /\ err = "none"
    /\ election_years = Years
    /\ entities = [y \in {Years[i] : i \in 1..Len(Years)} |-> Registry]
    /\ calls = <<>>
    /\ IdleLoop
    /\ IdleOthers

\* process_entity for any registered entity of any configured year.
Store ==
    /\ Len(calls) < MaxCalls
    /\ \E year \in ConfiguredYears, entity_type \in TierSet :
         \E i \in 1..Len(IdsOf(year, entity_type)) :
           LET entity_id == IdsOf(year, entity_type)[i]
               t == SecondsPerMinute
           IN  /\ ProcessEntity(entity_type, entity_id, year, DocA, t)
               /\ calls' = Append(calls, [dir |-> EntityPath(entity_type, entity_id, year),
                                           data |-> DocA, stamp |-> StrfTime(t)])
    /\ UNCHANGED <<monitorVars, loopVars, retentionVars, discoverVars, fetchVars, raceVars, callerVars>>

\* DataRetentionManager.run(), more than a year after the snapshots were taken.
Sweep == \E m \in SweepMonths : CleanupRun(SweepBase, m)

NextSweep == Store \/ Sweep

SpecSweep == InitSweep /\ [][NextSweep]_vars

\* C10: a sweep hands cleanup_entity every directory the Monitor has stored
\* snapshots in, with the tier of the entity, for all four tiers and every year.
C10_SweepVisitsEveryEntityDir ==
    [][calls' = calls =>
         \A i \in 1..Len(written) :
            [dir |-> written[i].dir, tier |-> TierOfDir(written[i].dir)] \in visited']_vars

\* What holds instead: the directories of the national, region and
\* municipality tiers are visited; those of the district tier never are.
C10_AllButDistricts ==
    [][calls' = calls =>
         \A i \in 1..Len(written) :
            [dir |-> written[i].dir, tier |-> TierOfDir(written[i].dir)] \in visited'
                <=> TierOfDir(written[i].dir) # "krets"]_vars

----------------------------------------------------------------------------
(* Entity Discoverer: EntitiesScraper (downloader/src/entities_scraper.py) *)
(*                                                                         *)
(* A descriptor of the API is a record of the keys it carries: nr, href    *)
(* (the path of its own endpoint below the year), harUnderordnet and       *)
(* hrefNavn (here the unquoted last path segment of that field, as the     *)
(* sequence of its tokens: words, and the separators between them).  A     *)
(* normalised name is the sequence of its dash-separated segments, so the  *)
(* empty name is <<"">>.                                                   *)

None == <<>>

\* str.lower() on the words of the model.
Lower(w) ==
    CASE w = "Oslo"      -> "oslo"
      [] w = "Gamle"     -> "gamle"
      [] w = "Rogaland"  -> "rogaland"
      [] w = "Stavanger" -> "stavanger"
      [] OTHER           -> w

Separators == {" ", "-", "+"}
Removed == {".", ",", "(", ")"}

\* The replacements of one token: a space is a dash, "+" is "-og-", full stops,
\* commas and other punctuation go, a word is lower-cased.
Replaced(tok) ==
    IF tok = "+" THEN <<"-", "og", "-">>
    ELSE IF tok \in Separators THEN <<"-">>
    ELSE IF tok \in Removed THEN <<>>
    ELSE <<Lower(tok)>>

RECURSIVE Flatten(_)
Flatten(parts) == IF parts = <<>> THEN <<>> ELSE Head(parts) \o Flatten(Tail(parts))

\* str.split('-'): the segments between the dashes, empty ones included.
RECURSIVE SplitDash(_, _)
SplitDash(toks, cur) ==
    IF toks = <<>> THEN <<cur>>
    ELSE IF Head(toks) = "-" THEN <<cur>> \o SplitDash(Tail(toks), "")
    ELSE SplitDash(Tail(toks), cur \o Head(toks))

\* A normalisation under which an empty name leaves no segment at all.
NormalizeNoSegment(name) ==
    SelectSeq(SplitDash(Flatten([i \in 1..Len(name) |-> Replaced(name[i])]), ""),
              LAMBDA g : g # "")

_normalize_name(name) ==
    LET replaced == Flatten([i \in 1..Len(name) |-> Replaced(name[i])])
        segments == SplitDash(replaced, "")
        \* collapsing "--" and strip('-') leave no empty segment between dashes
        kept     == SelectSeq(segments, LAMBDA g : g # "")
    IN  IF kept = <<>> THEN <<"">> ELSE kept

HasKeys(d, keys) == keys \subseteq DOMAIN d

_create_fylke_id(fylke) ==
    IF HasKeys(fylke, {"nr", "hrefNavn"})
    THEN <<"fylke", fylke.nr>> \o _normalize_name(fylke.hrefNavn)
    ELSE None

_create_kommune_id(fylke, kommune) ==
    IF HasKeys(fylke, {"nr"}) /\ HasKeys(kommune, {"nr", "hrefNavn"})
    THEN <<"kommune", fylke.nr, kommune.nr>> \o _normalize_name(kommune.hrefNavn)
    ELSE None

_create_krets_id(fylke, kommune, krets) ==
    IF HasKeys(fylke, {"nr"}) /\ HasKeys(kommune, {"nr"}) /\ HasKeys(krets, {"nr", "hrefNavn"})
    THEN <<"krets", fylke.nr, kommune.nr, krets.nr>> \o _normalize_name(krets.hrefNavn)
    ELSE None

\* kommune.get('harUnderordnet', False)
HarUnderordnet(kommune) == HasKeys(kommune, {"harUnderordnet"}) /\ kommune.harUnderordnet

(* Bounds of the discovery model *)

MaxPasses == 2       \* discovery passes followed in one behaviour

EntityTiers == {"fylke", "kommune", "krets"}

\* self.entities[year] = {'fylke': [], 'kommune': [], 'krets': []}
EmptyYear == [fylke |-> <<>>, kommune |-> <<>>, krets |-> <<>>]

Has(seq, x) == \E i \in 1..Len(seq) : seq[i] = x

\* The test without the look-up in the set of known IDs.
IsSome(ent, year, tier, id) == id # None

\* if id and id not in existing:
IsNew(ent, year, tier, id) == id # None /\ ~Has(ent[year][tier], id)

\* self.entities[year][tier].append(id)
AppendNew(ent, year, tier, id) == [ent EXCEPT ![year][tier] = Append(@, id)]

\* The endpoint below a year that a descriptor's href names.
UrlOf(year, href) == <<year>> \o href

\* What _fetch_data(url) ends with: the related descriptors of the payload, or no data.
Payload(year, href, failing) ==
    IF UrlOf(year, href) \in failing \/ href \notin DOMAIN upstream
    THEN [ok |-> FALSE, related |-> <<>>]
    ELSE [ok |-> TRUE, related |-> upstream[href]]

\* A walk that ends at the first child endpoint without data.
AbortSiblings(related, i) == Len(related) + 1

\* continue: on to the next sibling.
NextSibling(related, i) == i + 1

RECURSIVE WalkKrets(_, _, _, _, _, _)
WalkKrets(ent, year, fylke, kommune, related, i) ==
    IF i > Len(related) THEN ent
    ELSE LET krets_id == _create_krets_id(fylke, kommune, related[i])
             added == IF IsNew(ent, year, "krets", krets_id)
                      THEN AppendNew(ent, year, "krets", krets_id) ELSE ent
         IN  WalkKrets(added, year, fylke, kommune, related, i + 1)

\* The loop over the municipalities of a region: the registry it leaves, and
\* whether it raised (kommune['href'] of a descriptor without href).
RECURSIVE WalkKommuner(_, _, _, _, _, _)
WalkKommuner(ent, year, fylke, related, i, failing) ==
    IF i > Len(related) THEN [entities |-> ent, raised |-> FALSE]
    ELSE LET kommune == related[i]
             kommune_id == _create_kommune_id(fylke, kommune)
         IN  IF ~IsNew(ent, year, "kommune", kommune_id)
             THEN WalkKommuner(ent, year, fylke, related, i + 1, failing)
             ELSE LET added == AppendNew(ent, year, "kommune", kommune_id)
                  IN  IF ~HarUnderordnet(kommune)
                      THEN WalkKommuner(added, year, fylke, related, i + 1, failing)
                      ELSE IF ~HasKeys(kommune, {"href"})
                      THEN [entities |-> added, raised |-> TRUE]
                      ELSE LET krets_data == Payload(year, kommune.href, failing)
                           IN  IF ~krets_data.ok
                               THEN WalkKommuner(added, year, fylke, related,
                                                 NextSibling(related, i), failing)
                               ELSE WalkKommuner(WalkKrets(added, year, fylke, kommune,
                                                           krets_data.related, 1),
                                                 year, fylke, related, i + 1, failing)

\* The loop over the regions of a year.
RECURSIVE WalkFylker(_, _, _, _, _)
WalkFylker(ent, year, related, i, failing) ==
    IF i > Len(related) THEN [entities |-> ent, raised |-> FALSE]
    ELSE LET fylke == related[i]
             fylke_id == _create_fylke_id(fylke)
         IN  IF ~IsNew(ent, year, "fylke", fylke_id)
             THEN WalkFylker(ent, year, related, i + 1, failing)
             ELSE LET added == AppendNew(ent, year, "fylke", fylke_id)
                  IN  IF ~HasKeys(fylke, {"href"})
                      THEN [entities |-> added, raised |-> TRUE]
                      ELSE LET kommune_data == Payload(year, fylke.href, failing)
                           IN  IF ~kommune_data.ok
                               THEN WalkFylker(added, year, related,
                                               NextSibling(related, i), failing)
                               ELSE LET below == WalkKommuner(added, year, fylke,
                                                              kommune_data.related, 1, failing)
                                    IN  IF below.raised THEN below
                                        ELSE WalkFylker(below.entities, year, related,
                                                        i + 1, failing)

\* The loop over the election years.
RECURSIVE WalkYears(_, _, _, _)
WalkYears(ent, years, i, failing) ==
    IF i > Len(years) THEN [entities |-> ent, raised |-> FALSE]
    ELSE LET year == years[i]
             known == IF year \in DOMAIN ent THEN ent ELSE Put(ent, year, EmptyYear)
             national_data == Payload(year, <<>>, failing)
         IN  IF ~national_data.ok THEN WalkYears(known, years, i + 1, failing)
             ELSE LET below == WalkFylker(known, year, national_data.related, 1, failing)
                  IN  IF below.raised THEN below
                      ELSE WalkYears(below.entities, years, i + 1, failing)

\* scrape_entities on a scraper whose self.entities is ent: what self.entities is
\* afterwards, and what the call returns ({} when the walk raised).
scrape_entities(ent, years, failing) ==
    LET walk == WalkYears(ent, years, 1, failing)
    IN  [entities |-> walk.entities,
         result   |-> IF walk.raised THEN NoLinks ELSE walk.entities]

\* if scraped_entities:
Truthy(registry) == DOMAIN registry # {}

----------------------------------------------------------------------------
(* The election API of the model *)

F1 == [nr |-> "03", hrefNavn |-> <<"Oslo">>, href |-> <<"03">>]
F2 == [nr |-> "11", hrefNavn |-> <<"Rogaland">>, href |-> <<"11">>]
K1 == [nr |-> "0301", hrefNavn |-> <<"Oslo">>, href |-> <<"03", "0301">>,
       harUnderordnet |-> TRUE]
K2 == [nr |-> "1103", hrefNavn |-> <<"Stavanger">>, href |-> <<"11", "1103">>,
       harUnderordnet |-> FALSE]
D1 == [nr |-> "0001", hrefNavn |-> <<"Gamle", " ", "Oslo">>, href |-> <<"03", "0301", "0001">>]
D2 == [nr |-> "0002", hrefNavn |-> <<".">>, href |-> <<"03", "0301", "0002">>]

Hrefs == {<<>>, <<"03">>, <<"11">>, <<"03", "0301">>}

\* The payloads of the national endpoint, of the two regions and of the
\* municipality with districts.
Tree(national, oslo, rogaland, districts) ==
    [h \in Hrefs |-> CASE h = <<>> -> national
                       [] h = <<"03">> -> oslo
                       [] h = <<"11">> -> rogaland
                       [] OTHER -> districts]

\* Payloads whose descriptors carry every key; the second lists entities twice.
WellFormedApis ==
    {Tree(<<F1, F2>>, <<K1>>, <<K2>>, <<D1, D2>>),
     Tree(<<F1, F1, F2>>, <<K1, K1>>, <<K2>>, <<D1, D1>>),
     Tree(<<F2, F1>>, <<K1>>, <<K2>>, <<D2>>)}

DescriptorKeys == {"nr", "hrefNavn", "href"}

\* Payloads in which one descriptor lacks one key.
MalformedApis ==
    UNION {{Tree(<<Drop(F1, k), F2>>, <<K1>>, <<K2>>, <<D1, D2>>),
            Tree(<<F1, Drop(F2, k)>>, <<K1>>, <<K2>>, <<D1, D2>>),
            Tree(<<F1, F2>>, <<Drop(K1, k)>>, <<K2>>, <<D1, D2>>),
            Tree(<<F2, F1>>, <<K1>>, <<Drop(K2, k)>>, <<D1, D2>>),
            Tree(<<F1, F2>>, <<K1>>, <<K2>>, <<Drop(D1, k), D2>>)} : k \in DescriptorKeys}

Urls == {UrlOf(Years[i], h) : i \in 1..Len(Years), h \in Hrefs}

NationalUrls == {UrlOf(Years[i], <<>>) : i \in 1..Len(Years)}

\* The endpoints without data during one pass: none, any one of them, the
\* national endpoint of every year, or both regions of a year.
Outages ==
    {{}} \cup {{u} : u \in Urls} \cup {NationalUrls}
    \cup {{UrlOf(Years[1], F1.href), UrlOf(Years[1], F2.href)}}

----------------------------------------------------------------------------
(* Discovery at the Monitor's start, and further passes of one scraper *)

\* ElectionMonitor._load_entities(): a file that is missing or not valid JSON
\* reads as the empty registry.
LoadEntities ==
    /\ passes < MaxPasses
    /\ \E failing \in Outages :
         LET existing_entities == config
             scraper == scrape_entities(NoLinks, election_years, failing)
             scraped_entities == scraper.result
         IN  /\ scraped' = scraper.entities
             /\ result' = scraped_entities
             /\ down' = failing
             /\ IF Truthy(scraped_entities)
                THEN config' = scraped_entities /\ entities' = scraped_entities
                ELSE config' = config /\ entities' = existing_entities
    /\ op' = "load"
    /\ passes' = passes + 1
    /\ UNCHANGED <<storeVars, callVars, election_years, loopVars, retentionVars, upstream,
                   fetchVars, raceVars, callerVars>>

\* scrape_entities called again on the scraper in use.
ScrapeAgain ==
    /\ passes < MaxPasses
    /\ \E failing \in Outages :
         LET scraper == scrape_entities(scraped, election_years, failing)
         IN  /\ scraped' = scraper.entities
             /\ result' = scraper.result
             /\ down' = failing
    /\ op' = "scrape"
    /\ passes' = passes + 1
    /\ UNCHANGED <<storeVars, callVars, monitorVars, loopVars, retentionVars, upstream,
                   config, fetchVars, raceVars, callerVars>>

DiscoverStart(apis) ==
    /\ files = NoFiles
    /\ links = NoLinks
    /\ written = <<>>
    /\ err = "none"
    /\ election_years = Years
    /\ entities = NoLinks
    /\ calls = <<>>
    /\ IdleLoop
    /\ IdleRetention
    /\ IdleFetch
    /\ IdleRace
    /\ IdleCaller
    /\ upstream \in apis
    /\ scraped = NoLinks
    /\ result = NoLinks
    /\ config = NoLinks
    /\ down = {}
    /\ op = "none"
    /\ passes = 0

InitDiscover == DiscoverStart(WellFormedApis)

NextDiscover == LoadEntities \/ ScrapeAgain

SpecDiscover == InitDiscover /\ [][NextDiscover]_vars

InitMalformed == DiscoverStart(MalformedApis)

SpecMalformed == InitMalformed /\ [][NextDiscover]_vars

----------------------------------------------------------------------------
(* Claims about discovery, checked under SpecDiscover and SpecMalformed *)

IdSet(seq) == {seq[i] : i \in 1..Len(seq)}

YearSet == {Years[i] : i \in 1..Len(Years)}

\* C11: the persisted registry never loses an ID: after the Monitor's start-up
\* load, discovery and rewrite, every ID the registry file held before is
\* still in it, whatever the discovery pass found or failed to fetch.
C11_RegistryNeverLosesId ==
    [][op' = "load" /\ passes' = passes + 1 =>
         \A y \in DOMAIN config : \A tier \in EntityTiers :
            /\ y \in DOMAIN config'
            /\ IdSet(config[y][tier]) \subseteq IdSet(config'[y][tier])]_vars

\* C12: when the top-level fetch fails for every year, the discovery result is
\* empty, the Monitor falls back to the persisted registry and the registry
\* file is not rewritten.
C12_TotalFailureFallsBack ==
    [][op' = "load" /\ passes' = passes + 1 /\ NationalUrls \subseteq down' =>
         /\ result' = NoLinks
         /\ config' = config
         /\ entities' = config]_vars

NoRepeat(seq) == \A i, j \in 1..Len(seq) : seq[i] = seq[j] => i = j

NoRepeats(registry) ==
    \A y \in DOMAIN registry : \A tier \in EntityTiers : NoRepeat(registry[y][tier])

\* C13: discovery is idempotent: a pass in which every fetch succeeds, made
\* after a pass of the same scraper in which every fetch succeeded, leaves the
\* registry as it was and returns the same registry; and no per-tier sequence
\* of a year ever holds the same ID twice.
C13_DiscoveryIdempotent ==
    /\ [](NoRepeats(scraped) /\ NoRepeats(result) /\ NoRepeats(config))
    /\ [][op' = "scrape" /\ passes' = passes + 1 /\ passes >= 1 /\ down = {} /\ down' = {} =>
            scraped' = scraped /\ result' = result]_vars

\* A second pass without outages, over payloads that list entities twice.
C13_Witness ==
    /\ op = "scrape"
    /\ passes = 2
    /\ down = {}
    /\ Len(upstream[<<>>]) = 3
    /\ result = scraped
    /\ \A y \in YearSet : y \in DOMAIN scraped /\ Len(scraped[y]["krets"]) = 1

Walkable(d) == HasKeys(d, DescriptorKeys)

Up(year, href, failing) == UrlOf(year, href) \notin failing

\* The descriptors with every key that an endpoint lists, when it has data.
Listed(year, href, failing) ==
    IF Up(year, href, failing)
    THEN {d \in IdSet(upstream[href]) : Walkable(d)}
    ELSE {}

\* The IDs of the descriptors with every key whose ancestors have every key
\* and an endpoint with data.
ClaimedIds(year, tier, failing) ==
    LET fylker == Listed(year, <<>>, failing)
    IN  CASE tier = "fylke" -> {_create_fylke_id(f) : f \in fylker}
          [] tier = "kommune" ->
               UNION {{_create_kommune_id(f, k) : k \in Listed(year, f.href, failing)} :
                      f \in fylker}
          [] OTHER ->
               UNION {UNION {{_create_krets_id(f, k, c) :
                                c \in Listed(year, k.href, failing)} :
                             k \in {x \in Listed(year, f.href, failing) : HarUnderordnet(x)}} :
                      f \in fylker}

\* C14: a fetch failure aborts only the subtree of the endpoint that failed: a
\* first pass with outages finds exactly the IDs below the endpoints that had
\* data (the IDs appended before the failure stay, later siblings and other
\* years are still walked) and returns them.
C14_FailedFetchAbortsOnlySubtree ==
    passes = 1 /\ down # {} =>
        /\ result = scraped
        /\ \A y \in YearSet : \A tier \in EntityTiers :
              y \in DOMAIN scraped /\ IdSet(scraped[y][tier]) = ClaimedIds(y, tier, down)

\* The first region's endpoint was down: its ID stays, its municipalities are
\* missing, the later region and its municipality were walked.
C14_Witness ==
    /\ passes = 1
    /\ down = {UrlOf(Years[1], F1.href)}
    /\ upstream[<<>>] = <<F1, F2>>
    /\ Years[1] \in DOMAIN result
    /\ result[Years[1]]["fylke"] = <<_create_fylke_id(F1), _create_fylke_id(F2)>>
    /\ result[Years[1]]["kommune"] = <<_create_kommune_id(F2, K2)>>

\* C23: a child-fetch failure costs only the current pass: when the fetch of a
\* region's municipality list or of a municipality's district list failed in
\* one pass, a later pass of the same scraper in which every fetch succeeds
\* adds the IDs below that endpoint, so that the registry is complete.
C23_LaterPassRecoversSubtree ==
    [][/\ op' = "scrape" /\ passes' = passes + 1
       /\ passes >= 1 /\ down # {} /\ down \cap NationalUrls = {}
       /\ down' = {}
       => \A y \in YearSet : \A tier \in EntityTiers :
             y \in DOMAIN scraped' /\ ClaimedIds(y, tier, {}) \subseteq IdSet(scraped'[y][tier])]_vars

\* C15: a descriptor that lacks a key (nr, hrefNavn or href) is skipped without
\* aborting the pass: a first pass without outages returns the ID of every
\* descriptor with all keys whose ancestors have all keys.
C15_MalformedDescriptorSkipped ==
    passes = 1 /\ down = {} =>
        \A y \in YearSet : \A tier \in EntityTiers :
           y \in DOMAIN result /\ ClaimedIds(y, tier, {}) \subseteq IdSet(result[y][tier])

----------------------------------------------------------------------------
(* _fetch_data of the Monitor and of the Discoverer, attempt by attempt *)

MonitorRetries == 5
MonitorDelay == 1
ScraperRetries == 5
ScraperDelay == 1

MaxResponses == 6    \* responses of the network drawn for one call

Fetchers == {"monitor", "scraper"}

max_retries(fetcher) == IF fetcher = "monitor" THEN MonitorRetries ELSE ScraperRetries
retry_delay(fetcher) == IF fetcher = "monitor" THEN MonitorDelay ELSE ScraperDelay

RECURSIVE Pow2(_)
Pow2(k) == IF k = 0 THEN 1 ELSE 2 * Pow2(k - 1)

\* A delay that grows by retry_delay with every attempt.
WaitLinear(fetcher, n) == retry_delay(fetcher) * (n + 1)

\* wait_time = retry_delay * (2 ** attempt)
wait_time(fetcher, n) == retry_delay(fetcher) * Pow2(n)

\* What the network answers to one request: a payload, or a
\* requests.RequestException (time-out, connection error, HTTP error status).
Answers == {[ok |-> TRUE, data |-> DocA], [ok |-> TRUE, data |-> DocB],
            [ok |-> FALSE, data |-> EmptyDoc]}

\* One iteration of `for attempt in range(max_retries)`, the sleep included.
FetchAttempt ==
    /\ ~response.done
    /\ attempt < max_retries(args.fetcher)
    /\ LET answer == args.network[attempt + 1]
       IN  IF answer.ok
           THEN response' = [done |-> TRUE, data |-> answer.data] /\ slept' = slept
           ELSE IF attempt = max_retries(args.fetcher) - 1
           THEN response' = [done |-> TRUE, data |-> NoData] /\ slept' = slept
           ELSE /\ slept' = Append(slept, wait_time(args.fetcher, attempt))
                /\ response' = response
    /\ attempt' = attempt + 1
    /\ UNCHANGED <<storeVars, callVars, monitorVars, loopVars, retentionVars, discoverVars,
                   callerVars, raceVars>>

InitFetch ==
    /\ files = NoFiles
    /\ links = NoLinks
    /\ written = <<>>
    /\ err = "none"
    /\ election_years = <<Years[1]>>
    /\ entities = [y \in {Years[1]} |-> Registry]
    /\ calls = <<>>
    /\ IdleLoop
    /\ IdleRetention
    /\ IdleDiscover
    /\ IdleFetch
    /\ IdleRace
    /\ \E fetcher \in Fetchers, network \in [1..MaxResponses -> Answers] :
         args = [fetcher |-> fetcher, network |-> network]
    /\ returned = <<>>

NextFetch == FetchAttempt

SpecFetch == InitFetch /\ [][NextFetch]_vars

\* The attempts that can succeed: those made before max_retries is used up.
Successes == {i \in 1..max_retries(args.fetcher) : args.network[i].ok}

FirstSuccess == CHOOSE i \in Successes : \A j \in Successes : i <= j

\* C16: a fetch makes at most 5 attempts and returns the payload of the first
\* one that succeeds; it waits 1, 2, 4, 8 seconds after the 1st to 4th failed
\* attempt and not after the 5th, after which it returns 'no data'; this holds
\* of the Monitor's and of the Discoverer's fetch.
C16_FetchRetriesWithBackoff ==
    /\ attempt <= 5
    /\ IF ~response.done
       THEN /\ attempt < 5
            /\ \A i \in 1..attempt : ~args.network[i].ok
            /\ slept = SubSeq(<<1, 2, 4, 8>>, 1, attempt)
       ELSE IF Successes # {}
       THEN /\ attempt = FirstSuccess
            /\ response.data = args.network[FirstSuccess].data
            /\ slept = SubSeq(<<1, 2, 4, 8>>, 1, attempt - 1)
       ELSE /\ attempt = 5
            /\ response.data = NoData
            /\ slept = <<1, 2, 4, 8>>

\* The Discoverer's fetch gave up after five failures although a sixth request
\* would have been answered.
C16_Witness ==
    /\ args.fetcher = "scraper"
    /\ args.network[MaxResponses].ok
    /\ response.done
    /\ response.data = NoData
    /\ attempt = 5
    /\ slept = <<1, 2, 4, 8>>

----------------------------------------------------------------------------
(* SpecLife: the Monitor polls an entity, the Retention Manager sweeps, one  *)
(* after the other; the Monitor's clock is the local time and may repeat or  *)
(* step back, the sweeps run more than a year later and the Monitor goes on  *)
(* after them.                                                               *)

\* The tiers whose directories the sweep looks into where the Monitor writes.
LifeTiers == {"nasjonalt", "fylke"}

\* datetime.now() of the Monitor: before the first sweep, and after it.
LifeClocks == IF now = 0 THEN ClockReadings ELSE {now + r : r \in ClockReadings}

Poll ==
    /\ Len(calls) < MaxCalls
    /\ \E entity_type \in LifeTiers, data \in {DocA, DocB}, t \in LifeClocks :
         LET entity_id == FirstId(entity_type)
             dir == EntityPath(entity_type, entity_id, Years[1])
         IN  /\ calls # <<>> => calls[1].dir = dir
             /\ ProcessEntity(entity_type, entity_id, Years[1], data, t)
             /\ calls' = Append(calls, [dir |-> dir, data |-> data, stamp |-> StrfTime(t)])
    /\ UNCHANGED <<monitorVars, loopVars, retentionVars, discoverVars, fetchVars, raceVars, callerVars>>

\* DataRetentionManager.run() between two polls.
SweepLater == \E m \in SweepMonths : CleanupRun(SweepBase, m)

NextLife == Poll \/ SweepLater

SpecLife == Init /\ [][NextLife]_vars

\* C17: no error is fatal to the Monitor: whatever the fetches return and
\* whatever state Monitor writes and Retention sweeps have left the store in,
\* process_entity returns normally and the polling loop goes on.
C17_NoErrorIsFatal == err = "none"

\* C20: after any sequence of Monitor saves and Retention sweeps that run one
\* after the other, under a wall clock that may repeat or step back, the
\* latest pointer of every entity references a snapshot file that exists.
C20_LatestTargetExists == \A dir \in DOMAIN links : FileExists(dir, links[dir])

----------------------------------------------------------------------------
(* _has_meaningful_changes on documents with nested objects and arrays *)

Inner   == << <<"x", Num(1)>>, <<"y", Num(2)>> >>
Inner2  == << <<"y", Num(2)>>, <<"x", Num(1)>> >>   \* Inner in another key order
InnerB  == << <<"x", Num(1)>>, <<"y", Num(1)>> >>
Deep    == << <<"x", Obj(Inner)>>, <<"y", Num(2)>> >>
Deep2   == << <<"y", Num(2)>>, <<"x", Obj(Inner2)>> >>
DeepB   == << <<"x", Obj(InnerB)>>, <<"y", Num(2)>> >>

\* Documents that differ in key order or in one value at depth 1, 2 or 3, in
\* the order or a member of an array, in the presence of a key, in the type of
\* a value, and in the time stamp field alone.
NestedDocs ==
    {DocA, DocA2, DocB,
     << <<"a", Num(1)>>, <<"b", Obj(Inner)>> >>,
     << <<"b", Obj(Inner2)>>, <<"a", Num(1)>> >>,
     << <<"a", Num(1)>>, <<"b", Obj(InnerB)>> >>,
     << <<"a", Num(1)>>, <<"b", Obj(<< <<"x", Num(1)>> >>)>> >>,
     << <<"a", Num(1)>>, <<"b", Obj(Deep)>> >>,
     << <<"b", Obj(Deep2)>>, <<"a", Num(1)>> >>,
     << <<"a", Num(1)>>, <<"b", Obj(DeepB)>> >>,
     << <<"a", Arr(<<Obj(Inner), Num(2)>>)>> >>,
     << <<"a", Arr(<<Obj(Inner2), Num(2)>>)>> >>,
     << <<"a", Arr(<<Num(2), Obj(Inner)>>)>> >>,
     << <<"tidspunkt", Num(1)>>, <<"a", Num(1)>> >>,
     << <<"tidspunkt", Num(2)>>, <<"a", Num(1)>> >>}

\* Nothing has run: the store is empty and every component is at rest.
AtRest ==
    /\ files = NoFiles
    /\ links = NoLinks
    /\ written = <<>>
    /\ err = "none"
    /\ election_years = <<Years[1]>>
    /\ entities = [y \in {Years[1]} |-> Registry]
    /\ calls = <<>>
    /\ IdleLoop
    /\ IdleRetention
    /\ IdleDiscover
    /\ IdleFetch
    /\ IdleRace

InitCompare ==
    /\ AtRest
    /\ \E old_data \in NestedDocs, new_data \in NestedDocs :
         args = [old_data |-> old_data, new_data |-> new_data]
    /\ returned = <<>>

Compare ==
    /\ returned = <<>>
    /\ returned' = <<_has_meaningful_changes(args.old_data, args.new_data)>>
    /\ UNCHANGED <<storeVars, callVars, monitorVars, loopVars, retentionVars, discoverVars,
                   fetchVars, raceVars, args>>

NextCompare == Compare

SpecCompare == InitCompare /\ [][NextCompare]_vars

\* Structural equality of two JSON values: the same type and, for objects, the
\* same keys with structurally equal values, for arrays, structurally equal
\* members in the same order, for numbers, the same number.
RECURSIVE SameValue(_, _)
SameValue(x, y) ==
    IF x.t # y.t THEN FALSE
    ELSE IF x.t = "obj"
    THEN /\ Keys(x.v) = Keys(y.v)
         /\ \A k \in Keys(x.v) : SameValue(Get(x.v, k), Get(y.v, k))
    ELSE IF x.t = "arr"
    THEN /\ Len(x.v) = Len(y.v)
         /\ \A i \in 1..Len(x.v) : SameValue(x.v[i], y.v[i])
    ELSE x.v = y.v

----------------------------------------------------------------------------
(* ID construction by the Discoverer and URL templating by the Monitor *)

\* The last path segment of hrefNavn: plain, with spaces, dashes and "+",
\* starting or ending with a separator, made of digits, and empty once
\* normalised.
Names ==
    {<<"Oslo">>, <<"Gamle", " ", "Oslo">>, <<"Nord", "-", "Odal">>,
     <<"Stavanger", "+", "Rogaland">>, <<" ", "Oslo", "-">>, <<"03">>,
     <<"0301", "-", "0001">>, <<".">>, <<"-">>, <<>>}

FylkeCodes == {"03", "11"}
KommuneCodes == {"0301", "1103"}
KretsCodes == {"0001", "0002"}

InitIds ==
    /\ AtRest
    /\ \E entity_type \in EntityTiers, fylke_nr \in FylkeCodes, kommune_nr \in KommuneCodes,
          krets_nr \in KretsCodes, name \in Names :
         args = [entity_type |-> entity_type, fylke_nr |-> fylke_nr,
                 kommune_nr |-> kommune_nr, krets_nr |-> krets_nr, name |-> name]
    /\ returned = <<>>

\* The ID the Discoverer builds for the descriptors drawn.
BuiltId ==
    LET fylke == [nr |-> args.fylke_nr, hrefNavn |-> args.name]
        kommune == [nr |-> args.kommune_nr, hrefNavn |-> args.name]
        krets == [nr |-> args.krets_nr, hrefNavn |-> args.name]
    IN  CASE args.entity_type = "fylke" -> _create_fylke_id(fylke)
          [] args.entity_type = "kommune" -> _create_kommune_id(fylke, kommune)
          [] OTHER -> _create_krets_id(fylke, kommune, krets)

\* The Discoverer builds the ID, process_entity templates the URL from it.
BuildAndTemplate ==
    /\ returned = <<>>
    /\ returned' =
         <<[entity_id |-> BuiltId,
            raised |-> IndexError(args.entity_type, BuiltId),
            url |-> IF IndexError(args.entity_type, BuiltId) THEN <<>>
                    ELSE Url(args.entity_type, BuiltId, Years[1])]>>
    /\ UNCHANGED <<storeVars, callVars, monitorVars, loopVars, retentionVars, discoverVars,
                   fetchVars, raceVars, args>>

NextIds == BuildAndTemplate

SpecIds == InitIds /\ [][NextIds]_vars

\* The codes an ID of the tier is constructed from.
CodesUsed ==
    CASE args.entity_type = "fylke" -> <<args.fylke_nr>>
      [] args.entity_type = "kommune" -> <<args.fylke_nr, args.kommune_nr>>
      [] OTHER -> <<args.fylke_nr, args.kommune_nr, args.krets_nr>>

\* C19: ID construction and URL templating round-trip: for every ID the
\* Discoverer builds from numeric codes and any name slug, with hyphens or
\* empty, the code segments the Monitor puts into the tier's URL template are
\* the codes the ID was constructed from.
C19_IdUrlRoundTrip ==
    returned # <<>> =>
        /\ ~returned[1].raised
        /\ returned[1].url = <<Years[1], "st">> \o CodesUsed

\* A district ID with an empty slug was built and templated.
C19_Witness ==
    /\ returned # <<>>
    /\ args.entity_type = "krets"
    /\ args.name = <<".">>
    /\ returned[1].entity_id = <<"krets", args.fylke_nr, args.kommune_nr, args.krets_nr, "">>
    /\ returned[1].url = <<Years[1], "st", args.fylke_nr, args.kommune_nr, args.krets_nr>>

----------------------------------------------------------------------------
(* SpecRace: one _save_snapshot of the Monitor and one cleanup_entity of the *)
(* Retention Manager on the same entity directory, step by step and in any   *)
(* order.  At the start the directory holds snapshots and the latest pointer *)
(* references the one whose name sorts last.                                 *)

\* The tiers whose directory the sweep finds where the Monitor writes.
RaceTiers == {"nasjonalt", "fylke", "kommune"}

\* The stems in the directory at the start: two from before the cut-off of
\* the tier's active policy, one from the minute before the sweep, one from
\* the minute of the save.
StemsBefore(tier) ==
    {StrfTime(SweepBase - PeriodOf(tier) - 2 * SecondsPerMinute),
     StrfTime(SweepBase - PeriodOf(tier) - SecondsPerMinute),
     StrfTime(SweepBase - SecondsPerMinute),
     StrfTime(SweepBase)}

\* The name that sorts last.
LastByName(names) == CHOOSE n \in names : \A o \in names : o = n \/ NameLess(o, n)

InitRace ==
    /\ written = <<>>
    /\ err = "none"
    /\ election_years = <<Years[1]>>
    /\ entities = [y \in {Years[1]} |-> Registry]
    /\ calls = <<>>
    /\ IdleLoop
    /\ IdleDiscover
    /\ IdleFetch
    /\ \E tier \in RaceTiers, data \in {DocA, DocB}, m \in SweepMonths :
         \E names \in SUBSET StemsBefore(tier) :
           LET dir == EntityPath(tier, FirstId(tier), Years[1])
           IN  /\ files = [f \in {File(dir, n) : n \in names} |-> DocA]
               /\ links = IF names = {} THEN NoLinks
                          ELSE [d \in {dir} |-> LastByName(names)]
               /\ args = [dir |-> dir, tier |-> tier, data |-> data,
                          timestamp |-> StrfTime(SweepBase)]
               /\ month = m
    /\ now = SweepBase
    /\ deleted = {}
    /\ visited = {}
    /\ returned = <<>>
    /\ save_pc = "write"
    /\ sweep_pc = "list"
    /\ listing = <<>>

\* with open(snapshot_path, 'w') as f: json.dump(data, f)
SaveWrite ==
    /\ save_pc = "write"
    /\ files' = Put(files, File(args.dir, args.timestamp), args.data)
    /\ written' = Append(written, [dir |-> args.dir, name |-> args.timestamp,
                                    doc |-> args.data])
    /\ save_pc' = "test"
    /\ UNCHANGED <<links, err, callVars, monitorVars, loopVars, retentionVars, discoverVars,
                   fetchVars, callerVars, sweep_pc, listing>>

\* if symlink_path.exists():
SaveTest ==
    /\ save_pc = "test"
    /\ save_pc' = IF LinkExists(args.dir) THEN "unlink" ELSE "link"
    /\ UNCHANGED <<storeVars, callVars, monitorVars, loopVars, retentionVars, discoverVars,
                   fetchVars, callerVars, sweep_pc, listing>>

\* symlink_path.unlink()
SaveUnlink ==
    /\ save_pc = "unlink"
    /\ links' = Drop(links, args.dir)
    /\ save_pc' = "link"
    /\ UNCHANGED <<files, written, err, callVars, monitorVars, loopVars, retentionVars,
                   discoverVars, fetchVars, callerVars, sweep_pc, listing>>

\* symlink_path.symlink_to(...): FileExistsError when the link is still there.
SaveLink ==
    /\ save_pc = "link"
    /\ IF IsSymlink(args.dir)
       THEN err' = "FileExistsError" /\ links' = links
       ELSE err' = err /\ links' = Put(links, args.dir, args.timestamp)
    /\ save_pc' = "done"
    /\ UNCHANGED <<files, written, callVars, monitorVars, loopVars, retentionVars,
                   discoverVars, fetchVars, callerVars, sweep_pc, listing>>

\* snapshots = self.get_snapshots(entity_path); if not snapshots: return
SweepList ==
    /\ sweep_pc = "list"
    /\ listing' = get_snapshots(args.dir)
    /\ sweep_pc' = IF get_snapshots(args.dir) = <<>> THEN "done" ELSE "pick"
    /\ UNCHANGED <<storeVars, callVars, monitorVars, loopVars, retentionVars, discoverVars,
                   fetchVars, callerVars, save_pc>>

\* latest = snapshots[-1]; the loop is over snapshots[:-1]
SweepPick ==
    /\ sweep_pc = "pick"
    /\ listing' = SubSeq(listing, 1, Len(listing) - 1)
    /\ sweep_pc' = IF Len(listing) = 1 THEN "done" ELSE "delete"
    /\ UNCHANGED <<storeVars, callVars, monitorVars, loopVars, retentionVars, discoverVars,
                   fetchVars, callerVars, save_pc>>

\* One iteration of the loop: snapshot.unlink() unless the snapshot is retained.
SweepDelete ==
    /\ sweep_pc = "delete"
    /\ LET snapshot == Head(listing)
           retain == should_retain_snapshot(snapshot, args.tier,
                                            is_election_active(month), now)
       IN  /\ files' = IF retain THEN files ELSE Drop(files, File(args.dir, snapshot))
           /\ deleted' = IF retain THEN deleted ELSE deleted \cup {File(args.dir, snapshot)}
    /\ listing' = Tail(listing)
    /\ sweep_pc' = IF Len(listing) = 1 THEN "done" ELSE "delete"
    /\ UNCHANGED <<links, written, err, callVars, monitorVars, loopVars, now, month, visited,
                   discoverVars, fetchVars, callerVars, save_pc>>

NextRace ==
    \/ SaveWrite \/ SaveTest \/ SaveUnlink \/ SaveLink
    \/ SweepList \/ SweepPick \/ SweepDelete

SpecRace == InitRace /\ [][NextRace]_vars

\* C22: under every interleaving of the steps of one snapshot save with the
\* steps of one sweep of the same entity directory, the save ends without an
\* error and, once both have ended, the latest pointer references a file
\* that exists and is the snapshot written last.
C22_SaveAndSweepInterleave ==
    /\ save_pc = "done" => err = "none"
    /\ (save_pc = "done" /\ sweep_pc = "done") =>
          /\ LinkExists(args.dir)
          /\ links[args.dir] = written[Len(written)].name

====
